---- MODULE Spec2Model ----
(***************************************************************************)
(* A model of fycharts/api.py: the four chart endpoints, the date-range    *)
(* resolution (build_dates), the region validation (normalize_regions)    *)
(* and the per-(date, region) fetch loop (fetch_chart) with the           *)
(* structured-entry adapter (fetch_chart_entries, extract_entries).       *)
(*                                                                         *)
(* One request is followed from its arrival to its HTTP response.  A date *)
(* is a day number; a date string is a TLA+ string, and parse_date and    *)
(* valid_date_map convert between the two.                                *)
(***************************************************************************)
EXTENDS Integers, Sequences, FiniteSets, TLC

VARIABLES
    request,        \* the query: chart key, start, end, region, latest_only_if_unset
                    \* (start and end are kept until fetch_chart is entered)
    CHARTS_TOKEN,   \* whether SPOTIFY_CHARTS_TOKEN is set (api.py:83)
    valid_dates,    \* the days defaultListOfDates returns for the chart
                    \* (kept until fetch_chart is entered)
    pc,             \* the handler's position
    dates,          \* the endpoint's local `dates`
    regions,        \* the endpoint's local `regions`
    di, ri,         \* the fetch loop's position: date index, region index
    dimensions,     \* extract_entries' local `dimensions` of the last payload
    output,         \* fetch_chart's `output`
    misses,         \* fetch_chart's `misses`
    attempts,       \* history: one entry per pair handed to fetch_chart_entries
    calls,          \* history: the (alias, date) arguments of fetch_chart_entries
    gets,           \* history: the URLs handed to requests.get
    response        \* the HTTP response of the request

vars == << request, CHARTS_TOKEN, valid_dates, pc, dates, regions, di, ri,
           dimensions, output, misses, attempts, calls, gets, response >>

(***************************************************************************)
(* Bounds of the model.                                                    *)
(***************************************************************************)
\* build_dates alone is explored over the days 0..MaxDay
MaxDay == 7
\* a whole request is explored over the days 0..ReqMaxDay
ReqMaxDay == 1
\* the longest region list of a request
MaxRegions == 2
\* the most entries of one upstream payload
MaxEntries == 2
\* the fetch loop is explored for requests of at most this many pairs
MaxPairs == 4

\* the [:5] of the weekly suggestions
MaxSuggestions == 5

(***************************************************************************)
(* Sequences.                                                              *)
(***************************************************************************)
Range(s) == { s[k] : k \in DOMAIN s }

Min(S) == CHOOSE x \in S : \A y \in S : x <= y

RECURSIVE SortedSeq(_)
SortedSeq(S) == IF S = {} THEN << >>
                ELSE << Min(S) >> \o SortedSeq(S \ { Min(S) })

RECURSIVE SelectSeqIn(_, _)
\* the elements of s that are in S, in s's order
SelectSeqIn(s, S) ==
    IF s = << >> THEN << >>
    ELSE (IF Head(s) \in S THEN << Head(s) >> ELSE << >>) \o SelectSeqIn(Tail(s), S)

Take(s, n) == SubSeq(s, 1, IF Len(s) < n THEN Len(s) ELSE n)

SeqsUpTo(S, n) == UNION { [1..k -> S] : k \in 0..n }

(***************************************************************************)
(* Date strings.  Day d is the d-th day after 2021-01-01.  strptime with   *)
(* "%Y-%m-%d" accepts the zero-padded form and the unpadded one; the       *)
(* valid-date list holds the zero-padded form.                             *)
(***************************************************************************)
None == "<None>"

ParseDays == 0 .. (MaxDay + ReqMaxDay + 1)

\* the zero-padded string of each day, as the valid-date list writes it
LabelTable == [ d \in ParseDays |->
                  IF d + 1 < 10 THEN "2021-01-0" \o ToString(d + 1)
                  ELSE "2021-01-" \o ToString(d + 1) ]

DateLabel(d) == LabelTable[d]

ShortLabel(d) == "2021-1-" \o ToString(d + 1)

Malformed == "01/02/2021"

\* what "%Y-%m-%d" parses, and the day each string parses to
ParseTable == [ s \in { DateLabel(d) : d \in ParseDays } \cup { ShortLabel(d) : d \in ParseDays }
                  |-> CHOOSE d \in ParseDays : s \in { DateLabel(d), ShortLabel(d) } ]

\* datetime.strptime(value, "%Y-%m-%d"): the day, or -1 for ValueError
strptime(value) == IF value \in DOMAIN ParseTable THEN ParseTable[value] ELSE -1

HTTPException(status, detail, items) ==
    [ status |-> status, detail |-> detail, items |-> items, data |-> << >> ]

NoResponse == [ status |-> 0, detail |-> "", items |-> << >>, data |-> << >> ]

parse_date(value, param_name) ==
    IF strptime(value) >= 0
    THEN [ ok |-> TRUE, dt |-> strptime(value), error |-> NoResponse ]
    ELSE [ ok |-> FALSE, dt |-> -1,
           error |-> HTTPException(400, "Invalid " \o param_name \o " date", << value >>) ]

\* valid_date_map: datetime -> the string of the valid-date list
valid_date_map(valid) == [ d \in valid |-> DateLabel(d) ]

valid_date_list(valid) == SortedSeq(valid)

Labels(valid, seq) == [ k \in DOMAIN seq |-> valid_date_map(valid)[seq[k]] ]

Raise(error) == [ ok |-> FALSE, dates |-> << >>, error |-> error ]

Return(ds) == [ ok |-> TRUE, dates |-> ds, error |-> NoResponse ]

\* start_branch with the suggestions taken from the whole valid-date list
start_branch_unfiltered(start, is_weekly, valid) ==
    LET list == valid_date_list(valid) IN
    IF start = None THEN [ ok |-> TRUE, dt |-> list[1], error |-> NoResponse ]
    ELSE LET p == parse_date(start, "start") IN
         IF ~p.ok THEN p
         ELSE IF p.dt < list[1] THEN [ ok |-> TRUE, dt |-> list[1], error |-> NoResponse ]
         ELSE IF is_weekly /\ p.dt \notin valid
         THEN [ ok |-> FALSE, dt |-> -1,
                error |-> HTTPException(400, "Invalid start date for weekly charts",
                    Take(Labels(valid, list), MaxSuggestions)) ]
         ELSE p

\* start_branch without the clamp to the earliest valid date
start_branch_noclamp(start, is_weekly, valid) ==
    LET list == valid_date_list(valid) IN
    IF start = None THEN [ ok |-> TRUE, dt |-> list[1], error |-> NoResponse ]
    ELSE LET p == parse_date(start, "start") IN
         IF ~p.ok THEN p
         ELSE IF is_weekly /\ p.dt \notin valid
         THEN [ ok |-> FALSE, dt |-> -1,
                error |-> HTTPException(400, "Invalid start date for weekly charts",
                    Take(Labels(valid, SelectSeqIn(list, { d \in valid : d >= p.dt })),
                         MaxSuggestions)) ]
         ELSE p

\* lines 112-130: the resolved start, or the error of the start branch
start_branch(start, is_weekly, valid) ==
    LET list == valid_date_list(valid) IN
    IF start = None THEN [ ok |-> TRUE, dt |-> list[1], error |-> NoResponse ]
    ELSE LET p == parse_date(start, "start") IN
         IF ~p.ok THEN p
         ELSE IF p.dt < list[1] THEN [ ok |-> TRUE, dt |-> list[1], error |-> NoResponse ]
         ELSE IF is_weekly /\ p.dt \notin valid
         THEN [ ok |-> FALSE, dt |-> -1,
                error |-> HTTPException(400, "Invalid start date for weekly charts",
                    Take(Labels(valid, SelectSeqIn(list, { d \in valid : d >= p.dt })),
                         MaxSuggestions)) ]
         ELSE p

\* lines 132-140: the resolved end, or the error of the end branch
end_branch(end, valid) ==
    LET list == valid_date_list(valid) IN
    IF end = None THEN [ ok |-> TRUE, dt |-> list[Len(list)], error |-> NoResponse ]
    ELSE LET p == parse_date(end, "end") IN
         IF ~p.ok THEN p
         ELSE IF p.dt > list[Len(list)]
         THEN [ ok |-> TRUE, dt |-> list[Len(list)], error |-> NoResponse ]
         ELSE p

\* build_dates resolving an unset start and end to the whole range
build_dates_nolatest(start, end, is_weekly, valid, latest_only_if_unset) ==
    LET s == start_branch(start, is_weekly, valid) IN
    IF ~s.ok THEN Raise(s.error)
    ELSE LET e == end_branch(end, valid) IN
         IF ~e.ok THEN Raise(e.error)
         ELSE IF e.dt < s.dt
         THEN Raise(HTTPException(400,
                  "End date must be the same as or after start date.", << >>))
         ELSE Return(Labels(valid,
                  SelectSeqIn(valid_date_list(valid),
                              { d \in valid : s.dt <= d /\ d <= e.dt })))

\* build_dates with the range's upper end exclusive
build_dates_exclusive(start, end, is_weekly, valid, latest_only_if_unset) ==
    IF start = None /\ end = None /\ latest_only_if_unset THEN Return(<< "latest" >>)
    ELSE LET s == start_branch(start, is_weekly, valid) IN
         IF ~s.ok THEN Raise(s.error)
         ELSE LET e == end_branch(end, valid) IN
              IF ~e.ok THEN Raise(e.error)
              ELSE IF e.dt < s.dt
              THEN Raise(HTTPException(400,
                       "End date must be the same as or after start date.", << >>))
              ELSE Return(Labels(valid,
                       SelectSeqIn(valid_date_list(valid),
                                   { d \in valid : s.dt <= d /\ d < e.dt })))

build_dates(start, end, is_weekly, valid, latest_only_if_unset) ==
    IF start = None /\ end = None /\ latest_only_if_unset THEN Return(<< "latest" >>)
    ELSE LET s == start_branch(start, is_weekly, valid) IN
         IF ~s.ok THEN Raise(s.error)
         ELSE LET e == end_branch(end, valid) IN
              IF ~e.ok THEN Raise(e.error)
              ELSE IF e.dt < s.dt
              THEN Raise(HTTPException(400,
                       "End date must be the same as or after start date.", << >>))
              ELSE Return(Labels(valid,
                       SelectSeqIn(valid_date_list(valid),
                                   { d \in valid : s.dt <= d /\ d <= e.dt })))

(***************************************************************************)
(* The chart keys and the endpoints' arguments to build_dates.             *)
(***************************************************************************)
ChartKeys == { << "top200", "daily" >>, << "top200", "weekly" >>,
               << "viral50", "daily" >>, << "viral50", "weekly" >> }

is_weekly(chart_key) == chart_key[2] = "weekly"

\* defaultListOfDates(is_weekly, is_viral): some non-empty set of days
defaultListOfDates(maxday) == (SUBSET (0..maxday)) \ { {} }

DateInputs(maxday) ==
    { None, Malformed } \cup { DateLabel(d) : d \in 0..maxday }

UnpaddedInputs(maxday) == { ShortLabel(d) : d \in 0..maxday }

(***************************************************************************)
(* The endpoint, step by step.                                             *)
(***************************************************************************)
BuildDates ==
    /\ pc = "build_dates"
    /\ LET r == build_dates(request.start, request.end, is_weekly(request.chart),
                            valid_dates, request.latest_only_if_unset) IN
       IF r.ok
       THEN /\ dates' = r.dates
            /\ pc' = "normalize_regions"
            /\ UNCHANGED response
       ELSE /\ response' = r.error
            /\ pc' = "done"
            /\ UNCHANGED dates
    /\ UNCHANGED << request, CHARTS_TOKEN, valid_dates, regions, di, ri, dimensions,
                    output, misses, attempts, calls, gets >>

NoPayload == [ entries |-> << >>, country |-> None, date |-> None, status |-> 0 ]

InitLocals ==
    /\ pc = "build_dates"
    /\ dates = << >>
    /\ regions = << >>
    /\ di = 1
    /\ ri = 1
    /\ dimensions = [ country |-> None ]
    /\ output = << >>
    /\ misses = << >>
    /\ attempts = << >>
    /\ calls = << >>
    /\ gets = << >>
    /\ response = NoResponse

\* build_dates on its own, over every calendar and every start and end
InitDates ==
    /\ valid_dates \in defaultListOfDates(MaxDay)
    /\ CHARTS_TOKEN \in { TRUE }
    /\ \E chart \in { k \in ChartKeys : k[1] = "top200" },
          start \in DateInputs(MaxDay) \cup UnpaddedInputs(MaxDay),
          end \in DateInputs(MaxDay) :
       \E latest \in (IF start = None /\ end = None THEN BOOLEAN ELSE { TRUE }) :
          request = [ chart |-> chart, start |-> start, end |-> end,
                      region |-> << >>, latest_only_if_unset |-> latest ]
    /\ InitLocals

SpecDates == InitDates /\ [][BuildDates]_vars

(***************************************************************************)
(* Regions, aliases and the structured-entry adapter.                      *)
(***************************************************************************)
REGION_CODES ==
    { "global", "ad", "ar", "at", "au", "be", "bg", "bo", "br", "ca", "ch", "cl",
      "co", "cr", "cy", "cz", "de", "dk", "do", "ec", "ee", "es", "fi", "fr", "gb",
      "gr", "gt", "hk", "hn", "hu", "id", "ie", "il", "is", "it", "jp", "lt", "lu",
      "lv", "mc", "mt", "mx", "my", "ni", "nl", "no", "nz", "pa", "pe", "ph", "pl",
      "pt", "py", "ro", "se", "sg", "sk", "sv", "th", "tr", "tw", "us", "uy", "vn" }

\* str.lower on the strings of the model
lower(str) == CASE str = "US" -> "us"
                [] str = "DE" -> "de"
                [] OTHER -> str

\* the region codes a request may carry
RegionInputs == { "global", "us", "zz", "US" }

\* the region query parameter; << >> stands for an absent one and for []
RegionLists == SeqsUpTo(RegionInputs, MaxRegions)

\* normalize_regions keeping only the first unsupported code
normalize_regions_first(requested) ==
    LET invalid == SelectSeqIn(requested, Range(requested) \ REGION_CODES) IN
    IF requested = << >> THEN [ ok |-> TRUE, regions |-> << "global" >>, error |-> NoResponse ]
    ELSE IF invalid # << >>
    THEN [ ok |-> FALSE, regions |-> << >>,
           error |-> HTTPException(400, "Unsupported region(s)", << Head(invalid) >>) ]
    ELSE [ ok |-> TRUE, regions |-> requested, error |-> NoResponse ]

\* normalize_regions dropping the unsupported codes instead of failing
normalize_regions_lenient(requested) ==
    LET valid == SelectSeqIn(requested, REGION_CODES) IN
    IF valid = << >> THEN [ ok |-> TRUE, regions |-> << "global" >>, error |-> NoResponse ]
    ELSE [ ok |-> TRUE, regions |-> valid, error |-> NoResponse ]

normalize_regions(requested) ==
    LET invalid == SelectSeqIn(requested, Range(requested) \ REGION_CODES) IN
    IF requested = << >> THEN [ ok |-> TRUE, regions |-> << "global" >>, error |-> NoResponse ]
    ELSE IF invalid # << >>
    THEN [ ok |-> FALSE, regions |-> << >>,
           error |-> HTTPException(400, "Unsupported region(s)", invalid) ]
    ELSE [ ok |-> TRUE, regions |-> requested, error |-> NoResponse ]

ALIAS_TEMPLATES ==
    [ k \in ChartKeys |->
        CASE k = << "top200", "daily" >>   -> << "regional-", "-daily" >>
          [] k = << "top200", "weekly" >>  -> << "regional-", "-weekly" >>
          [] k = << "viral50", "daily" >>  -> << "viral-", "-daily" >>
          [] k = << "viral50", "weekly" >> -> << "viral-", "-weekly" >> ]

normalize_alias(chart_key, region) ==
    ALIAS_TEMPLATES[chart_key][1] \o lower(region) \o ALIAS_TEMPLATES[chart_key][2]

CHARTS_BASE_URL == "https://charts-spotify-com-service.spotify.com/auth/v0/charts"

\* the countries and dates the upstream metadata may give
Countries == { None, "DE" }

PayloadDates == { "2021-01-01" }

\* the entries of a payload: up to MaxEntries of them, entry k with
\* currentRank k; the first one may be flagged missingRequiredFields
EntryLists ==
    { [ k \in 1..n |-> [ currentRank |-> k, missingRequiredFields |-> (flagged /\ k = 1) ] ] :
        n \in 0..MaxEntries, flagged \in BOOLEAN }

Payloads ==
    { [ entries |-> es, country |-> c, date |-> d, status |-> 200 ] :
        es \in EntryLists, c \in Countries, d \in PayloadDates }

\* what requests.get may give: a payload with status 200, an error status,
\* or an exception of the transport (status -1)
ErrorStatuses == { 401, 404, 500 }

Replies ==
    Payloads \cup { [ entries |-> << >>, country |-> None, date |-> None, status |-> st ] :
                      st \in ErrorStatuses \cup { -1 } }

RECURSIVE flatten_entries(_, _, _)
flatten_entries(entries, chart_date, region) ==
    IF entries = << >> THEN << >>
    ELSE (IF Head(entries).missingRequiredFields THEN << >>
          ELSE << [ Position |-> Head(entries).currentRank,
                    date |-> chart_date, region |-> region ] >>)
         \o flatten_entries(Tail(entries), chart_date, region)

\* extract_entries with the metadata's country taken before the override
extract_entries_metadata_first(body, region_override) ==
    flatten_entries(body.entries, body.date,
        IF body.country \notin { None, "" } THEN lower(body.country)
        ELSE region_override)

extract_entries(body, region_override) ==
    flatten_entries(body.entries, body.date,
        IF region_override \notin { None, "" } THEN region_override
        ELSE IF body.country \notin { None, "" } THEN lower(body.country)
        ELSE None)

\* fetch_chart_entries with a failure turned into an empty payload
fetch_chart_entries_lenient(token, reply) ==
    IF ~token \/ reply.status # 200
    THEN [ ok |-> TRUE, get |-> token,
           body |-> [ entries |-> << >>, country |-> None, date |-> None, status |-> 200 ],
           error |-> NoResponse ]
    ELSE [ ok |-> TRUE, get |-> TRUE, body |-> reply, error |-> NoResponse ]

\* fetch_chart_entries: the payload, or the exception; get: whether
\* requests.get was called
fetch_chart_entries(token, reply) ==
    IF ~token
    THEN [ ok |-> FALSE, get |-> FALSE, body |-> NoPayload,
           error |-> HTTPException(502, "Spotify Charts now requires an access token.", << >>) ]
    ELSE IF reply.status = -1
    THEN [ ok |-> FALSE, get |-> TRUE, body |-> NoPayload,
           error |-> HTTPException(500, "Internal Server Error", << >>) ]
    ELSE IF reply.status = 401
    THEN [ ok |-> FALSE, get |-> TRUE, body |-> NoPayload,
           error |-> HTTPException(502, "Spotify Charts token expired or invalid.", << >>) ]
    ELSE IF reply.status >= 400
    THEN [ ok |-> FALSE, get |-> TRUE, body |-> NoPayload,
           error |-> HTTPException(502, "Spotify Charts API error",
                                   << ToString(reply.status) >>) ]
    ELSE [ ok |-> TRUE, get |-> TRUE, body |-> reply, error |-> NoResponse ]

\* the loop body with the new entries put in place of the collected ones
loop_body_replace(out, miss, date, region, entries) ==
    IF entries = << >>
    THEN [ output |-> out, misses |-> Append(miss, date \o "/" \o region) ]
    ELSE [ output |-> entries, misses |-> miss ]

\* the loop body with a miss label recorded once only
loop_body_once(out, miss, date, region, entries) ==
    IF entries = << >>
    THEN [ output |-> out,
           misses |-> IF date \o "/" \o region \in Range(miss) THEN miss
                      ELSE Append(miss, date \o "/" \o region) ]
    ELSE [ output |-> out \o entries, misses |-> miss ]

\* lines 259-263: what one pair's entries do to output and misses
loop_body(out, miss, date, region, entries) ==
    IF entries = << >>
    THEN [ output |-> out, misses |-> Append(miss, date \o "/" \o region) ]
    ELSE [ output |-> out \o entries, misses |-> miss ]

\* lines 264-273: the result of fetch_chart once the loops are over
fetch_chart_result(out, miss) ==
    IF out = << >>
    THEN IF miss # << >>
         THEN HTTPException(502, "Spotify Charts returned no entries for", miss)
         ELSE HTTPException(502, "No chart data returned for requested dates/regions.",
                            << >>)
    ELSE [ status |-> 200, detail |-> "ok", items |-> << >>, data |-> out ]

CHART_NAMES ==
    [ k \in ChartKeys |->
        CASE k = << "top200", "daily" >>   -> "top_200_daily"
          [] k = << "top200", "weekly" >>  -> "top_200_weekly"
          [] k = << "viral50", "daily" >>  -> "viral_50_daily"
          [] k = << "viral50", "weekly" >> -> "viral_50_weekly" ]

\* the endpoint's response once fetch_chart is over
endpoint_return(chart_key, out, miss) ==
    LET r == fetch_chart_result(out, miss) IN
    IF r.status = 200 THEN [ r EXCEPT !.detail = CHART_NAMES[chart_key] ] ELSE r

\* normalize_regions, and the entry into fetch_chart: with no dates its loops
\* do nothing and it returns at once
NormalizeRegions ==
    /\ pc = "normalize_regions"
    /\ LET r == normalize_regions(request.region) IN
       IF r.ok
       THEN /\ regions' = r.regions
            \* fetch_chart is given the chart key, dates and regions only
            /\ request' = [ request EXCEPT !.start = None, !.end = None ]
            /\ valid_dates' = {}
            /\ IF dates = << >>
               THEN /\ pc' = "done"
                    /\ response' = endpoint_return(request.chart, << >>, << >>)
               ELSE /\ pc' = "fetch_chart"
                    /\ UNCHANGED response
       ELSE /\ response' = r.error
            /\ pc' = "done"
            /\ UNCHANGED << regions, request, valid_dates >>
    /\ UNCHANGED << CHARTS_TOKEN, dates, di, ri, dimensions,
                    output, misses, attempts, calls, gets >>

\* one pass of the inner loop of fetch_chart: one call of fetch_chart_entries,
\* and after the last pair the return of fetch_chart and of the endpoint
FetchPair ==
    /\ pc = "fetch_chart"
    /\ Len(dates) * Len(regions) <= MaxPairs
    /\ \E reply \in Replies :
        LET date   == dates[di]
            region == regions[ri]
            alias  == normalize_alias(request.chart, region)
            got    == fetch_chart_entries(CHARTS_TOKEN, reply)
            entries == extract_entries(got.body, region)
            acc    == loop_body(output, misses, date, region, entries)
            last   == di = Len(dates) /\ ri = Len(regions)
        IN
        /\ calls' = Append(calls, << alias, date >>)
        /\ gets' = IF got.get
                   THEN Append(gets, CHARTS_BASE_URL \o "/" \o alias \o "/" \o date)
                   ELSE gets
        /\ IF got.ok
           THEN /\ dimensions' = [ country |-> got.body.country ]
                /\ output' = acc.output
                /\ misses' = acc.misses
                /\ attempts' = Append(attempts,
                       [ date |-> date, region |-> region,
                         status |-> IF got.get THEN reply.status ELSE 0,
                         records |-> entries ])
                /\ IF ri < Len(regions)
                   THEN ri' = ri + 1 /\ di' = di
                   ELSE ri' = 1 /\ di' = di + 1
                /\ IF last
                   THEN /\ pc' = "done"
                        /\ response' = endpoint_return(request.chart, acc.output, acc.misses)
                   ELSE UNCHANGED << pc, response >>
           ELSE /\ response' = got.error
                /\ pc' = "done"
                /\ attempts' = Append(attempts,
                       [ date |-> date, region |-> region,
                         status |-> IF got.get THEN reply.status ELSE 0,
                         records |-> << >> ])
                /\ UNCHANGED << dimensions, output, misses, di, ri >>
    /\ UNCHANGED << request, CHARTS_TOKEN, valid_dates, dates, regions >>

ReqDateInputs == DateInputs(ReqMaxDay)

\* a request to one of the four endpoints
Init ==
    /\ valid_dates \in defaultListOfDates(ReqMaxDay)
    /\ CHARTS_TOKEN \in BOOLEAN
    /\ request \in [ chart : ChartKeys, start : ReqDateInputs, end : ReqDateInputs,
                     region : RegionLists, latest_only_if_unset : { TRUE } ]
    /\ InitLocals

Next == BuildDates \/ NormalizeRegions \/ FetchPair

Spec == Init /\ [][Next]_vars

(***************************************************************************)
(* Properties of build_dates (checked under SpecDates).                    *)
(***************************************************************************)
Max(S) == CHOOSE x \in S : \A y \in S : x >= y

Earliest == Min(valid_dates)

Latest == Max(valid_dates)

WellFormed(value) == strptime(value) >= 0

Built == pc # "build_dates"

Weekly == request.chart[2] = "weekly"

WeeklyError == response.detail = "Invalid start date for weekly charts"

\* the explicit start, clamped up to the earliest valid date, is no valid date
UnalignedStart ==
    /\ WellFormed(request.start)
    /\ strptime(request.start) >= Earliest
    /\ strptime(request.start) \notin valid_dates

\* the valid days on or after the requested start
OnOrAfterStart == { d \in valid_dates : d >= strptime(request.start) }

\* C5: with weekly cadence, when the clamped start is no member of the
\* valid-date set, build_dates fails with a 400 and returns no dates, and
\* the error carries at most 5 dates: the earliest valid dates on or after
\* the requested start, ascending; a start before the earliest valid date
\* never gives this error.
C5_WeeklyAlignment ==
    Built /\ Weekly =>
        /\ UnalignedStart =>
            /\ response.status = 400
            /\ WeeklyError
            /\ dates = << >>
            /\ Len(response.items) <= 5
            /\ Len(response.items) = 5 \/ Len(response.items) = Cardinality(OnOrAfterStart)
            /\ \A k \in DOMAIN response.items :
                  /\ strptime(response.items[k]) \in OnOrAfterStart
                  /\ response.items[k] = DateLabel(strptime(response.items[k]))
                  /\ \A d \in OnOrAfterStart :
                        d < strptime(response.items[k]) =>
                            \E j \in 1..(k - 1) : strptime(response.items[j]) = d
            /\ \A j, k \in DOMAIN response.items :
                  j < k => strptime(response.items[j]) < strptime(response.items[k])
        /\ (WellFormed(request.start) /\ strptime(request.start) < Earliest) => ~WeeklyError

\* a weekly start off the calendar with six valid dates after it: the
\* suggestions are cut to five
C5_Witness ==
    /\ Built /\ Weekly /\ UnalignedStart
    /\ Cardinality(OnOrAfterStart) > 5
    /\ Len(response.items) = 5
    /\ WeeklyError

EarlyStart == WellFormed(request.start) /\ strptime(request.start) < Earliest

StartsAtEarliest ==
    /\ response.status = 0
    /\ dates # << >>
    /\ dates[1] = DateLabel(Earliest)

\* C6 as stated: for a well-formed start before the earliest valid date and
\* every end (absent or well-formed), build_dates does not fail and the
\* range starts at the earliest valid date.
C6_AsStated ==
    (Built /\ EarlyStart /\ (request.end = None \/ WellFormed(request.end)))
        => StartsAtEarliest

EndBeforeStartError ==
    /\ response.status = 400
    /\ response.detail = "End date must be the same as or after start date."
    /\ dates = << >>

\* C6, amended: for a well-formed start before the earliest valid date and
\* an end that is absent or a well-formed date not before the earliest
\* valid date, build_dates does not fail and the range starts at the
\* earliest valid date; with a well-formed end before the earliest valid
\* date it fails with the 400 of end < start.
C6_StartClamp ==
    /\ (Built /\ EarlyStart
          /\ (request.end = None
                \/ (WellFormed(request.end) /\ strptime(request.end) >= Earliest)))
          => StartsAtEarliest
    /\ (Built /\ EarlyStart
          /\ WellFormed(request.end) /\ strptime(request.end) < Earliest)
          => EndBeforeStartError

\* a weekly start before, and off, the calendar, with an explicit end
C6_Witness ==
    /\ Built /\ EarlyStart /\ Weekly
    /\ WellFormed(request.end)
    /\ Cardinality(valid_dates) > 1
    /\ StartsAtEarliest

LateEnd == WellFormed(request.end) /\ strptime(request.end) > Latest

EndsAtLatest ==
    /\ response.status = 0
    /\ dates # << >>
    /\ dates[Len(dates)] = DateLabel(Latest)

\* C7 as stated: for a well-formed end after the latest valid date and every
\* start (absent or well-formed), the range ends at the latest valid date.
C7_AsStated ==
    (Built /\ LateEnd /\ (request.start = None \/ WellFormed(request.start)))
        => EndsAtLatest

\* C7, amended: for a well-formed end after the latest valid date, and a
\* start that is absent, or well-formed, not after the latest valid date
\* and (for weekly cadence) either before the earliest valid date or a
\* valid date itself, the range ends at the latest valid date; an unaligned
\* weekly start fails with the 400 of C5, and otherwise a start after the
\* latest valid date fails with the 400 of end < start.
C7_EndClamp ==
    /\ (Built /\ LateEnd
          /\ (request.start = None
                \/ (/\ WellFormed(request.start)
                    /\ strptime(request.start) <= Latest
                    /\ (Weekly => ~UnalignedStart))))
          => EndsAtLatest
    /\ (Built /\ LateEnd /\ Weekly /\ UnalignedStart)
          => (response.status = 400 /\ WeeklyError)
    /\ (Built /\ LateEnd /\ ~Weekly
          /\ WellFormed(request.start) /\ strptime(request.start) > Latest)
          => EndBeforeStartError

\* an end after the calendar with an explicit start inside it
C7_Witness ==
    /\ Built /\ LateEnd
    /\ WellFormed(request.start)
    /\ strptime(request.start) > Earliest
    /\ Len(dates) > 1
    /\ EndsAtLatest

(***************************************************************************)
(* Properties of a whole request (checked under Spec).                     *)
(***************************************************************************)
Pairs == Len(dates) * Len(regions)

\* the k-th pair of the date-outer, region-inner order
PairDate(k) == dates[((k - 1) \div Len(regions)) + 1]

PairRegion(k) == regions[((k - 1) % Len(regions)) + 1]

PairLabel(k) == PairDate(k) \o "/" \o PairRegion(k)

\* a missing credential (0), a 401 or any other status >= 400
UpstreamFailure(a) == a.status = 0 \/ a.status >= 400

\* the number of the first k attempts that gave no record
RECURSIVE EmptyAmong(_, _)
EmptyAmong(as, k) ==
    IF k = 0 THEN 0
    ELSE EmptyAmong(as, k - 1) + (IF as[k].records = << >> THEN 1 ELSE 0)

\* C1 as stated: a pair's upstream failure does not abort the batch; every
\* pair is still attempted and the failed pair is recorded as a miss.
C1_AsStated ==
    (pc = "done" /\ \E k \in DOMAIN attempts : UpstreamFailure(attempts[k]))
        => /\ Len(attempts) = Pairs
           /\ \A k \in DOMAIN attempts :
                UpstreamFailure(attempts[k]) => PairLabel(k) \in Range(misses)

\* C1, amended: a pair's upstream failure (missing credential, 401, any other
\* status >= 400) ends the request at once with that pair's 502 error: the
\* failed pair is the last one attempted, it is not recorded as a miss, and
\* no record is returned.
C1_FailureAborts ==
    \A k \in DOMAIN attempts :
        UpstreamFailure(attempts[k]) =>
            /\ k = Len(attempts)
            /\ Len(calls) = k
            /\ pc = "done"
            /\ response.status = 502
            /\ response.data = << >>
            /\ response.detail =
                 (IF attempts[k].status = 0
                  THEN "Spotify Charts now requires an access token."
                  ELSE IF attempts[k].status = 401
                  THEN "Spotify Charts token expired or invalid."
                  ELSE "Spotify Charts API error")
            /\ Len(misses) = EmptyAmong(attempts, k - 1)

\* a 401 on the second of four pairs, after a first pair with records
C1_Witness ==
    /\ pc = "done"
    /\ Pairs = 4
    /\ Len(attempts) = 2
    /\ attempts[2].status = 401
    /\ output # << >>
    /\ response.status = 502

RECURSIVE RecordsOf(_, _)
\* the records of the first k attempts, in order
RecordsOf(as, k) ==
    IF k = 0 THEN << >> ELSE RecordsOf(as, k - 1) \o as[k].records

AllNormal == \A k \in DOMAIN attempts : attempts[k].status = 200

\* C2: when every upstream call returns normally and some pair yields a
\* record, the request succeeds after all pairs were attempted in date-outer,
\* region-inner order, and the data is the concatenation of the pairs'
\* records in that order, each pair's own order kept.
C2_PartialSuccess ==
    (pc = "done" /\ AllNormal /\ \E k \in DOMAIN attempts : attempts[k].records # << >>)
        => /\ response.status = 200
           /\ Len(attempts) = Pairs
           /\ \A k \in DOMAIN attempts :
                attempts[k].date = PairDate(k) /\ attempts[k].region = PairRegion(k)
           /\ response.data = RecordsOf(attempts, Len(attempts))
           /\ response.data = output
           /\ Len(misses) = EmptyAmong(attempts, Len(attempts))

\* four pairs, the first with two records, a miss in the middle, records after
C2_Witness ==
    /\ pc = "done"
    /\ AllNormal
    /\ Pairs = 4
    /\ Len(dates) = 2
    /\ Len(attempts[1].records) = 2
    /\ attempts[2].records = << >>
    /\ attempts[4].records # << >>
    /\ response.status = 200

\* fetch_chart ran, every call returned normally and no pair gave a record
AllMissed ==
    /\ pc = "done"
    /\ regions # << >>
    /\ AllNormal
    /\ \A k \in DOMAIN attempts : attempts[k].records = << >>

Occurrences(seq, x) == Cardinality({ j \in DOMAIN seq : seq[j] = x })

\* C3 as stated: when all pairs miss, the request fails with the 502 no-data
\* error after every pair was attempted, and the message lists every missed
\* pair label exactly once.
C3_AsStated ==
    AllMissed =>
        /\ response.status = 502
        /\ Len(attempts) = Pairs
        /\ Range(response.items) = { PairLabel(k) : k \in 1..Pairs }
        /\ \A k \in 1..Pairs : Occurrences(response.items, PairLabel(k)) = 1

\* C3, amended: when all pairs miss, the request fails with the 502 no-data
\* error after every pair was attempted, and the message lists one label per
\* attempted pair, in the order of the attempts and without truncation: a
\* label is listed exactly once when no region code is repeated, and once per
\* repetition otherwise.
C3_AllMiss ==
    AllMissed =>
        /\ response.status = 502
        /\ Len(attempts) = Pairs
        /\ response.items = [ k \in 1..Pairs |-> PairLabel(k) ]
        /\ Pairs > 0 => response.detail = "Spotify Charts returned no entries for"
        /\ (\A i, j \in DOMAIN regions : regions[i] = regions[j] => i = j)
              => \A k \in 1..Pairs : Occurrences(response.items, PairLabel(k)) = 1
        /\ \A k \in 1..Pairs :
              Occurrences(response.items, PairLabel(k)) = Occurrences(regions, PairRegion(k))

\* four pairs, all missed, with a repeated region code
C3_Witness ==
    /\ AllMissed
    /\ Pairs = 4
    /\ regions[1] = regions[2]
    /\ Len(response.items) = 4

IsMalformed(value) == value # None /\ ~WellFormed(value)

DateFault ==
    \/ IsMalformed(request.start)
    \/ IsMalformed(request.end)
    \/ (Weekly /\ UnalignedStart)
    \/ (/\ WellFormed(request.start) /\ WellFormed(request.end)
        /\ strptime(request.end) < strptime(request.start))

RegionFault == \E k \in DOMAIN request.region : request.region[k] \notin REGION_CODES

\* C4: a request with a malformed start or end, an unaligned weekly start,
\* end < start or an unsupported region code ends with a 400, and at no
\* point of it is fetch_chart_entries or requests.get called, with or
\* without a credential.
C4_InputFaultsFirst ==
    /\ DateFault => pc \in { "build_dates", "done" }
    /\ RegionFault => pc \in { "build_dates", "normalize_regions", "done" }
    /\ (DateFault \/ RegionFault) =>
          /\ calls = << >>
          /\ gets = << >>
          /\ pc = "done" => response.status = 400
    /\ response.status = 400 => calls = << >> /\ gets = << >>

\* an unsupported region with resolved dates and no credential
C4_Witness ==
    /\ pc = "done"
    /\ RegionFault /\ ~DateFault
    /\ ~CHARTS_TOKEN
    /\ Len(dates) = 2
    /\ response.status = 400

GlobalAlias ==
    CASE request.chart = << "top200", "daily" >>   -> "regional-global-daily"
      [] request.chart = << "top200", "weekly" >>  -> "regional-global-weekly"
      [] request.chart = << "viral50", "daily" >>  -> "viral-global-daily"
      [] request.chart = << "viral50", "weekly" >> -> "viral-global-weekly"

\* C8: with no start and no end build_dates gives the one slot "latest",
\* whatever the valid-date set; with no region as well the regions are
\* ["global"], and the request makes exactly one call of
\* fetch_chart_entries, for the chart's global alias and "latest" (one
\* requests.get when the credential is set).
C8_LatestShorthand ==
    /\ [][(pc = "build_dates" /\ request.start = None /\ request.end = None)
            => (dates' = << "latest" >> /\ pc' = "normalize_regions")]_vars
    /\ []((dates = << "latest" >> /\ request.region = << >>) =>
            /\ pc \in { "fetch_chart", "done" } => regions = << "global" >>
            /\ pc = "fetch_chart" => calls = << >>
            /\ pc = "done" =>
                 /\ calls = << << GlobalAlias, "latest" >> >>
                 /\ gets = IF CHARTS_TOKEN
                           THEN << "https://charts-spotify-com-service.spotify.com/auth/v0/charts/"
                                   \o GlobalAlias \o "/latest" >>
                           ELSE << >>)

\* the shorthand request answered with data
C8_Witness ==
    /\ pc = "done"
    /\ dates = << "latest" >>
    /\ request.region = << >>
    /\ Len(calls) = 1
    /\ response.status = 200

\* C9: for a non-empty region list, normalize_regions fails with a 400
\* naming every unsupported code and no supported one when there is an
\* unsupported code, and otherwise returns the list in the caller's order.
C9_RegionValidation ==
    [][(pc = "normalize_regions" /\ request.region # << >>) =>
         IF \E k \in DOMAIN request.region : request.region[k] \notin REGION_CODES
         THEN /\ pc' = "done"
              /\ response'.status = 400
              /\ response'.detail = "Unsupported region(s)"
              /\ Range(response'.items) = Range(request.region) \ REGION_CODES
              /\ regions' = << >>
         ELSE /\ regions' = request.region
              /\ response'.status # 400]_vars

\* two different unsupported codes, both named
C9_Witness ==
    /\ pc = "done"
    /\ response.detail = "Unsupported region(s)"
    /\ Cardinality(Range(request.region) \ REGION_CODES) = 2
    /\ Cardinality(Range(response.items)) = 2

LastAttempt == attempts[Len(attempts)]

\* C10 as stated: a record's region is the country of the response metadata,
\* lowercased, when the response gives one, and the requested region
\* otherwise.
C10_AsStated ==
    (attempts # << >> /\ LastAttempt.status = 200) =>
        \A k \in DOMAIN LastAttempt.records :
            LastAttempt.records[k].region =
                (IF dimensions.country # None THEN lower(dimensions.country)
                 ELSE PairRegion(Len(attempts)))

\* C10, amended: every record fetch_chart gets for a pair carries the
\* requested region of that pair, whether or not the response metadata gives
\* a country.
C10_RequestedRegion ==
    /\ \A k \in DOMAIN attempts :
         \A j \in DOMAIN attempts[k].records :
            attempts[k].records[j].region = PairRegion(k)
    /\ \A j \in DOMAIN output : output[j].region \in Range(regions)

\* a record for "us" from a response whose metadata says DE
C10_Witness ==
    /\ attempts # << >>
    /\ LastAttempt.records # << >>
    /\ dimensions.country = "DE"
    /\ LastAttempt.records[1].region = "us"

====
